---- MODULE Spec2Model ----
(***************************************************************************)
(* Model of the singlepass register/stack allocator `Machine`              *)
(* (lib/compiler-singlepass/src/machine.rs).                                *)
(*                                                                         *)
(* The Machine's five fields are the state; every public method is one     *)
(* action.  The assembler the methods write to is an append-only sink: the *)
(* variable `emitted` holds what the last call wrote to it and `last` what  *)
(* it returned, until the driver takes them (Return).  A panic (assert!,    *)
(* unreachable!, unwrap on None) sets `aborted` and stops the run, leaving  *)
(* the fields as they were at the panic.                                    *)
(*                                                                         *)
(* Six specifications share the actions:                                   *)
(*   Spec          values and temporaries, released whole or registers     *)
(*                 only, and the used-register queries;                    *)
(*   SpecStack     values, released through the calls that pop stack slots;*)
(*   SpecFrame     prologue, locals, a body of acquire/release, epilogue;  *)
(*   SpecTemps     the temporary-register interface alone;                 *)
(*   SpecPrologue  the prologue alone, for frames up to two pages of       *)
(*                 locals;                                                 *)
(*   SpecRsp       prologue, values and temporaries, released whole,       *)
(*                 registers only or stack only.                           *)
(***************************************************************************)
EXTENDS Integers, Sequences, FiniteSets, TLC

VARIABLES
    used_gprs,         \* Machine.used_gprs : u32 bitset
    used_xmms,         \* Machine.used_xmms : u32 bitset
    stack_offset,      \* Machine.stack_offset.0 : usize
    save_area_offset,  \* Machine.save_area_offset : Option<MachineStackOffset>
    locals_offset,     \* Machine.locals_offset.0 : usize
    emitted,           \* instructions the last call handed to the assembler
    last,              \* the last call: its name and what it returned
    aborted,           \* the process panicked
    phase,             \* "fresh" | "body" | "done": the driver's position
    held,              \* locations vended and not yet released, one list per vending call (a set)
    spills,            \* register saves written by init_locals, in order
    init_args          \* what init_locals was called with, and where it left stack_offset

vars == <<used_gprs, used_xmms, stack_offset, save_area_offset, locals_offset,
          emitted, last, aborted, phase, held, spills, init_args>>

-----------------------------------------------------------------------------
(* Bounds of the driver that calls the Machine.                            *)

MaxHeld == 2        \* vending calls whose locations are outstanding at once
MaxLocals == 5      \* locals given to init_locals / finalize_locals
MaxPrologueSmall == 8   \* largest of the small frames given to init_locals alone
MaxParams == 8      \* parameters among the locals of those frames

-----------------------------------------------------------------------------
(* Registers: the repr of the GPR and XMM enums (emitter_x64).             *)

RAX == 0
RCX == 1
RDX == 2
RBX == 3
RSP == 4
RBP == 5
RSI == 6
RDI == 7
R8 == 8
R9 == 9
R10 == 10
R11 == 11
R12 == 12
R13 == 13
R14 == 14
R15 == 15

XMM0 == 0
XMM1 == 1
XMM2 == 2
XMM3 == 3
XMM4 == 4
XMM5 == 5
XMM6 == 6
XMM7 == 7

NumGprs == 16
NumXmms == 16

NATIVE_PAGE_SIZE == 4096

-----------------------------------------------------------------------------
(* Location, Option, instructions.                                         *)

GPR(r) == [k |-> "GPR", a |-> r, b |-> 0]
XMM(r) == [k |-> "XMM", a |-> r, b |-> 0]
Memory(base, d) == [k |-> "Memory", a |-> base, b |-> d]
Imm32(v) == [k |-> "Imm32", a |-> v, b |-> 0]
Imm64(v) == [k |-> "Imm64", a |-> v, b |-> 0]
NoLoc == [k |-> "None", a |-> 0, b |-> 0]

\* Option<u8> / Option<GPR> / Option<XMM>, and Option<Location>
None == [some |-> FALSE, v |-> 0]
Some(x) == [some |-> TRUE, v |-> x]
NoneLoc == [some |-> FALSE, v |-> NoLoc]

Ins(op, src, dst) == [op |-> op, size |-> "S64", src |-> src, dst |-> dst]
emit_sub(src, dst) == Ins("sub", src, dst)
emit_add(src, dst) == Ins("add", src, dst)
emit_mov(src, dst) == Ins("mov", src, dst)
emit_xor(src, dst) == Ins("xor", src, dst)
emit_lea(src, dst) == Ins("lea", src, dst)
emit_pop(dst) == Ins("pop", NoLoc, dst)
emit_rep_stosq == Ins("rep stosq", NoLoc, NoLoc)

-----------------------------------------------------------------------------
(* u32 bitsets.                                                            *)

Bit(v, i) == (v \div 2^i) % 2

\* The bit positions a register set can hold: one per register of the file
\* (the source asserts num_gprs() <= 32 and num_xmms() <= 32).
Lane == 0..(NumGprs - 1)

\* x & y, x | y and x & !y, bit by bit over the lane.  Every mask the Machine
\* combines is either a single bit or a constant, so the result is assembled
\* from x by adding or removing the bits of y.
RECURSIVE SumBits(_)
SumBits(S) ==
    IF S = {} THEN 0
    ELSE LET i == CHOOSE x \in S : TRUE IN 2^i + SumBits(S \ {i})

BitAnd(x, y) == SumBits({i \in Lane : Bit(x, i) = 1 /\ Bit(y, i) = 1})
BitOr(x, y) == SumBits({i \in Lane : Bit(x, i) = 1 \/ Bit(y, i) = 1})
BitAndNot(x, y) == SumBits({i \in Lane : Bit(x, i) = 1 /\ Bit(y, i) = 0})

trailing_zeros(v) ==
    IF v = 0 THEN 32
    ELSE CHOOSE i \in Lane : Bit(v, i) = 1 /\ \A j \in 0..(i - 1) : Bit(v, j) = 0

\* bitset_of_regs!(r)
bitset_of_reg(r) == 2^r

bitset_of_regs(rs) == SumBits(rs)

pick_one_in(v) ==
    LET r == trailing_zeros(v)
    IN IF r # 32 THEN Some(r) ELSE None

\* Faulty variant: n is not stepped past the bit just pushed.
RECURSIVE get_used_loop_nostep(_, _, _)
get_used_loop_nostep(v, n, res) ==
    IF v = 0 \/ Len(res) < 0 THEN res
    ELSE LET tz == trailing_zeros(v)
         IN get_used_loop_nostep(v \div 2^(tz + 1), n + tz, Append(res, n + tz))

\* The `while v != 0` loop of get_used_in: n is the index of bit 0 of v.
RECURSIVE get_used_loop(_, _, _)
get_used_loop(v, n, res) ==
    IF v = 0 \/ Len(res) < 0 THEN res
    ELSE LET tz == trailing_zeros(v)
             n1 == n + tz
         IN get_used_loop(v \div 2^(tz + 1), n1 + 1, Append(res, n1))

\* to_return_type is from_repr: a register is its repr.
get_used_in(v) == get_used_loop(v, 0, <<>>)

get_used_gprs(ug) == get_used_in(ug)
get_used_xmms(ux) == get_used_in(ux)

PICK_GPR_REGS == bitset_of_regs({RSI, RDI, R8, R9, R10, R11})
PICK_TEMP_GPR_REGS == bitset_of_regs({RAX, RCX, RDX})
PICK_XMM_REGS == bitset_of_regs({XMM3, XMM4, XMM5, XMM6, XMM7})
PICK_TEMP_XMM_REGS == bitset_of_regs({XMM0, XMM1, XMM2})

\* Faulty variant: ignores which registers are in use.
pick_gpr_any(ug) == pick_one_in(PICK_GPR_REGS)
pick_gpr(ug) == pick_one_in(BitAndNot(PICK_GPR_REGS, ug))
\* Faulty variant: draws temporaries from the value registers.
pick_temp_gpr_from_values(ug) == pick_one_in(BitAndNot(PICK_GPR_REGS, ug))
pick_temp_gpr(ug) == pick_one_in(BitAndNot(PICK_TEMP_GPR_REGS, ug))
pick_xmm(ux) == pick_one_in(BitAndNot(PICK_XMM_REGS, ux))
pick_temp_xmm(ux) == pick_one_in(BitAndNot(PICK_TEMP_XMM_REGS, ux))

\* Faulty variant: reports every register as in use.
get_gpr_used_always(ug, r) == TRUE
get_gpr_used(ug, r) == 0 # BitAnd(ug, bitset_of_reg(r))
set_gpr_used(ug, r) == BitOr(ug, bitset_of_reg(r))
\* Faulty variant: never clears the bit.
set_gpr_unused_stuck(ug, r) == ug
set_gpr_unused(ug, r) == BitAndNot(ug, bitset_of_reg(r))

get_xmm_used(ux, r) == 0 # BitAnd(ux, bitset_of_reg(r))
\* Faulty variant: never sets the bit.
set_xmm_used_noop(ux, r) == ux
set_xmm_used(ux, r) == BitOr(ux, bitset_of_reg(r))
set_xmm_unused(ux, r) == BitAndNot(ux, bitset_of_reg(r))

-----------------------------------------------------------------------------
(* acquire_locations.                                                      *)

Types == {"I32", "I64", "F32", "F64", "FuncRef", "ExternRef", "V128"}
IsFloatTy(ty) == ty \in {"F32", "F64"}
IsGprTy(ty) == ty \in {"I32", "I64", "FuncRef", "ExternRef"}

\* The `for ty in tys` loop, from position i on.
\* st = [ug, ux, so, delta, ret, abort]
RECURSIVE acquire_loop(_, _, _)
acquire_loop(tys, i, st) ==
    IF st.abort \/ i > Len(tys) THEN st
    ELSE
      LET ty == tys[i] IN
      IF ~(IsFloatTy(ty) \/ IsGprTy(ty)) THEN [st EXCEPT !.abort = TRUE]
      ELSE
        LET picked == IF IsFloatTy(ty) THEN pick_xmm(st.ux) ELSE pick_gpr(st.ug)
            so1 == IF picked.some THEN st.so ELSE st.so + 8
            d1 == IF picked.some THEN st.delta ELSE st.delta + 8
            loc == IF picked.some
                   THEN (IF IsFloatTy(ty) THEN XMM(picked.v) ELSE GPR(picked.v))
                   ELSE Memory(RBP, -so1)
            ug1 == IF loc.k = "GPR" THEN set_gpr_used(st.ug, loc.a) ELSE st.ug
            ux1 == IF loc.k = "XMM" THEN set_xmm_used(st.ux, loc.a) ELSE st.ux
        IN acquire_loop(tys, i + 1,
               [ug |-> ug1, ux |-> ux1, so |-> so1, delta |-> d1,
                ret |-> Append(st.ret, loc), abort |-> FALSE])

\* Faulty variant: one sub per call whether or not a slot was handed out, and
\* the zeroing movs emitted first.
acquire_locations_unordered(ug, ux, so, tys, zeroed) ==
    LET r == acquire_loop(tys, 1,
                 [ug |-> ug, ux |-> ux, so |-> so, delta |-> 0, ret |-> <<>>,
                  abort |-> FALSE])
        zero == IF zeroed
                THEN [i \in 1..Len(tys) |-> emit_mov(Imm32(0), r.ret[i])]
                ELSE <<>>
    IN [ug |-> r.ug, ux |-> r.ux, so |-> r.so, ret |-> r.ret, abort |-> r.abort,
        emitted |-> IF r.abort THEN <<>>
                    ELSE zero \o <<emit_sub(Imm32(r.delta), GPR(RSP))>>]

\* Faulty variant: the slots are handed out but stack_offset is not advanced.
acquire_locations_flat(ug, ux, so, tys, zeroed) ==
    LET r == acquire_loop(tys, 1,
                 [ug |-> ug, ux |-> ux, so |-> so, delta |-> 0, ret |-> <<>>,
                  abort |-> FALSE])
    IN [ug |-> r.ug, ux |-> r.ux, so |-> so, ret |-> r.ret, abort |-> r.abort,
        emitted |-> IF r.delta # 0 /\ ~r.abort
                    THEN <<emit_sub(Imm32(r.delta), GPR(RSP))>> ELSE <<>>]

acquire_locations(ug, ux, so, tys, zeroed) ==
    LET r == acquire_loop(tys, 1,
                 [ug |-> ug, ux |-> ux, so |-> so, delta |-> 0, ret |-> <<>>,
                  abort |-> FALSE])
        sub == IF r.delta # 0 THEN <<emit_sub(Imm32(r.delta), GPR(RSP))>> ELSE <<>>
        zero == IF zeroed
                THEN [i \in 1..Len(tys) |-> emit_mov(Imm32(0), r.ret[i])]
                ELSE <<>>
    IN [ug |-> r.ug, ux |-> r.ux, so |-> r.so, ret |-> r.ret, abort |-> r.abort,
        emitted |-> IF r.abort THEN <<>> ELSE sub \o zero]

-----------------------------------------------------------------------------
(* The four release_locations variants.  Each loop walks locs in reverse,  *)
(* from position i down.  st = [ug, ux, so, delta, abort]                   *)

\* Faulty variant: a Memory location is taken for a frame slot whatever its base.
RECURSIVE release_loop_any_base(_, _, _)
release_loop_any_base(locs, i, st) ==
    IF st.abort \/ i < 1 THEN st
    ELSE
      LET loc == locs[i] IN
      IF loc.k = "GPR" THEN
          IF ~get_gpr_used(st.ug, loc.a) THEN [st EXCEPT !.abort = TRUE]
          ELSE release_loop_any_base(locs, i - 1,
                   [st EXCEPT !.ug = set_gpr_unused(st.ug, loc.a)])
      ELSE IF loc.k = "XMM" THEN
          IF ~get_xmm_used(st.ux, loc.a) THEN [st EXCEPT !.abort = TRUE]
          ELSE release_loop_any_base(locs, i - 1,
                   [st EXCEPT !.ux = set_xmm_unused(st.ux, loc.a)])
      ELSE IF loc.k = "Memory" THEN
          IF loc.b >= 0 THEN [st EXCEPT !.abort = TRUE]
          ELSE IF (-loc.b) # st.so THEN [st EXCEPT !.abort = TRUE]
          ELSE release_loop_any_base(locs, i - 1,
                   [st EXCEPT !.so = st.so - 8, !.delta = st.delta + 8])
      ELSE release_loop_any_base(locs, i - 1, st)

RECURSIVE release_loop(_, _, _)
release_loop(locs, i, st) ==
    IF st.abort \/ i < 1 THEN st
    ELSE
      LET loc == locs[i] IN
      IF loc.k = "GPR" THEN
          IF ~get_gpr_used(st.ug, loc.a) THEN [st EXCEPT !.abort = TRUE]
          ELSE release_loop(locs, i - 1, [st EXCEPT !.ug = set_gpr_unused(st.ug, loc.a)])
      ELSE IF loc.k = "XMM" THEN
          IF ~get_xmm_used(st.ux, loc.a) THEN [st EXCEPT !.abort = TRUE]
          ELSE release_loop(locs, i - 1, [st EXCEPT !.ux = set_xmm_unused(st.ux, loc.a)])
      ELSE IF loc.k = "Memory" /\ loc.a = RBP THEN
          IF loc.b >= 0 THEN [st EXCEPT !.abort = TRUE]
          ELSE IF (-loc.b) # st.so THEN [st EXCEPT !.abort = TRUE]
          ELSE release_loop(locs, i - 1,
                   [st EXCEPT !.so = st.so - 8, !.delta = st.delta + 8])
      ELSE release_loop(locs, i - 1, st)

\* Faulty variant: the add gives back one slot however many were popped.
release_emit_one_slot(st) ==
    IF ~st.abort /\ st.delta # 0
    THEN <<emit_add(Imm32(8), GPR(RSP))>>
    ELSE <<>>

release_emit(st) ==
    IF ~st.abort /\ st.delta # 0
    THEN <<emit_add(Imm32(st.delta), GPR(RSP))>>
    ELSE <<>>

release_locations(ug, ux, so, locs) ==
    LET r == release_loop(locs, Len(locs),
                 [ug |-> ug, ux |-> ux, so |-> so, delta |-> 0, abort |-> FALSE])
    IN [ug |-> r.ug, ux |-> r.ux, so |-> r.so, abort |-> r.abort,
        emitted |-> release_emit(r)]

RECURSIVE only_regs_loop(_, _, _)
only_regs_loop(locs, i, st) ==
    IF st.abort \/ i < 1 THEN st
    ELSE
      LET loc == locs[i] IN
      IF loc.k = "GPR" THEN
          IF ~get_gpr_used(st.ug, loc.a) THEN [st EXCEPT !.abort = TRUE]
          ELSE only_regs_loop(locs, i - 1, [st EXCEPT !.ug = set_gpr_unused(st.ug, loc.a)])
      ELSE IF loc.k = "XMM" THEN
          IF ~get_xmm_used(st.ux, loc.a) THEN [st EXCEPT !.abort = TRUE]
          ELSE only_regs_loop(locs, i - 1, [st EXCEPT !.ux = set_xmm_unused(st.ux, loc.a)])
      ELSE only_regs_loop(locs, i - 1, st)

release_locations_only_regs(ug, ux, so, locs) ==
    LET r == only_regs_loop(locs, Len(locs),
                 [ug |-> ug, ux |-> ux, so |-> so, delta |-> 0, abort |-> FALSE])
    IN [ug |-> r.ug, ux |-> r.ux, so |-> r.so, abort |-> r.abort, emitted |-> <<>>]

\* Faulty variant: pops every frame slot of the list without comparing it to
\* the stack top.
only_stack_loop_unchecked(locs, i, st) ==
    LET slots == {j \in 1..i : locs[j].k = "Memory" /\ locs[j].a = RBP /\ locs[j].b < 0}
    IN [st EXCEPT !.so = st.so - 8 * Cardinality(slots),
                  !.delta = st.delta + 8 * Cardinality(slots)]

RECURSIVE only_stack_loop(_, _, _)
only_stack_loop(locs, i, st) ==
    IF st.abort \/ i < 1 THEN st
    ELSE
      LET loc == locs[i] IN
      IF loc.k = "Memory" /\ loc.a = RBP THEN
          IF loc.b >= 0 THEN [st EXCEPT !.abort = TRUE]
          ELSE IF (-loc.b) # st.so THEN [st EXCEPT !.abort = TRUE]
          ELSE only_stack_loop(locs, i - 1,
                   [st EXCEPT !.so = st.so - 8, !.delta = st.delta + 8])
      ELSE only_stack_loop(locs, i - 1, st)

\* Faulty variant: the slots are popped but no add rsp is emitted.
release_locations_only_stack_quiet(ug, ux, so, locs) ==
    LET r == only_stack_loop(locs, Len(locs),
                 [ug |-> ug, ux |-> ux, so |-> so, delta |-> 0, abort |-> FALSE])
    IN [ug |-> r.ug, ux |-> r.ux, so |-> r.so, abort |-> r.abort, emitted |-> <<>>]

release_locations_only_stack(ug, ux, so, locs) ==
    LET r == only_stack_loop(locs, Len(locs),
                 [ug |-> ug, ux |-> ux, so |-> so, delta |-> 0, abort |-> FALSE])
    IN [ug |-> r.ug, ux |-> r.ux, so |-> r.so, abort |-> r.abort,
        emitted |-> release_emit(r)]

\* Faulty variant: compares every slot to the Machine's stack_offset instead
\* of a running copy.
keep_state_loop_stale(locs, i, st) ==
    LET slots == {j \in 1..i : locs[j].k = "Memory" /\ locs[j].a = RBP}
    IN [st EXCEPT !.abort = \E j \in slots : locs[j].b >= 0 \/ (-locs[j].b) # st.so,
                  !.delta = st.delta + 8 * Cardinality(slots)]

\* keep_state works on a local copy of stack_offset; st.so is that copy.
RECURSIVE keep_state_loop(_, _, _)
keep_state_loop(locs, i, st) ==
    IF st.abort \/ i < 1 THEN st
    ELSE
      LET loc == locs[i] IN
      IF loc.k = "Memory" /\ loc.a = RBP THEN
          IF loc.b >= 0 THEN [st EXCEPT !.abort = TRUE]
          ELSE IF (-loc.b) # st.so THEN [st EXCEPT !.abort = TRUE]
          ELSE keep_state_loop(locs, i - 1,
                   [st EXCEPT !.so = st.so - 8, !.delta = st.delta + 8])
      ELSE keep_state_loop(locs, i - 1, st)

\* Faulty variant: emits nothing.
release_locations_keep_state_silent(ug, ux, so, locs) ==
    [ug |-> ug, ux |-> ux, so |-> so, emitted |-> <<>>,
     abort |-> keep_state_loop(locs, Len(locs),
                   [ug |-> ug, ux |-> ux, so |-> so, delta |-> 0, abort |-> FALSE]).abort]

release_locations_keep_state(ug, ux, so, locs) ==
    LET r == keep_state_loop(locs, Len(locs),
                 [ug |-> ug, ux |-> ux, so |-> so, delta |-> 0, abort |-> FALSE])
    IN [ug |-> ug, ux |-> ux, so |-> so, abort |-> r.abort,
        emitted |-> release_emit(r)]

-----------------------------------------------------------------------------
(* Locals, parameters, prologue and epilogue.                              *)

LOCAL_REGISTERS == <<R12, R13, R14, RBX>>

Min(x, y) == IF x < y THEN x ELSE y

\* Faulty variant: a plain difference where the code saturates at 0.
Max_unsaturated(x, y) == x

Max(x, y) == IF x > y THEN x ELSE y

\* Faulty variant: does not discount the four register locals.
get_local_location_shifted(lo, idx) ==
    IF idx < Len(LOCAL_REGISTERS)
    THEN GPR(LOCAL_REGISTERS[idx + 1])
    ELSE Memory(RBP, -(idx * 8 + lo))

\* Faulty variant: the first stack local is put at the end of the save area
\* itself rather than 8 bytes below it.
get_local_location_on_save_area(lo, idx) ==
    IF idx < Len(LOCAL_REGISTERS)
    THEN GPR(LOCAL_REGISTERS[idx + 1])
    ELSE Memory(RBP, -((idx - Len(LOCAL_REGISTERS)) * 8 + lo - 8))

\* Faulty variant: the frame displacement is not negated.
get_local_location_unnegated(lo, idx) ==
    IF idx < Len(LOCAL_REGISTERS)
    THEN GPR(LOCAL_REGISTERS[idx + 1])
    ELSE Memory(RBP, (idx - Len(LOCAL_REGISTERS)) * 8 + lo)

\* idx is 0-based as in the source.  Within the range the validator and the
\* debug_assert allow (idx <= 999_999) none of the wrapping operations wraps.
get_local_location(lo, idx) ==
    IF idx < Len(LOCAL_REGISTERS)
    THEN GPR(LOCAL_REGISTERS[idx + 1])
    ELSE LET local_offset == (idx - Len(LOCAL_REGISTERS)) * 8
         IN Memory(RBP, -(local_offset + lo))

CallingConventions == {"SystemV", "WindowsFastcall"}

get_param_location(idx, cc) ==
    IF cc = "WindowsFastcall" THEN
        CASE idx = 0 -> GPR(RCX)
          [] idx = 1 -> GPR(RDX)
          [] idx = 2 -> GPR(R8)
          [] idx = 3 -> GPR(R9)
          [] OTHER -> Memory(RBP, 16 + 32 + (idx - 4) * 8)
    ELSE
        CASE idx = 0 -> GPR(RDI)
          [] idx = 1 -> GPR(RSI)
          [] idx = 2 -> GPR(RDX)
          [] idx = 3 -> GPR(RCX)
          [] idx = 4 -> GPR(R8)
          [] idx = 5 -> GPR(R9)
          [] OTHER -> Memory(RBP, 16 + (idx - 6) * 8)

RECURSIVE Flatten(_)
Flatten(ss) == IF ss = <<>> THEN <<>> ELSE Head(ss) \o Flatten(Tail(ss))

\* The instructions that load parameter i (0-based) into its local.
\* Faulty variant: a parameter passed in memory reaches a stack local through
\* RCX instead of RAX.
load_param_via_rcx(lo, i, cc) ==
    LET loc == get_param_location(i + 1, cc)
        local_loc == get_local_location(lo, i)
    IN IF loc.k = "GPR" \/ local_loc.k = "GPR" THEN <<emit_mov(loc, local_loc)>>
       ELSE <<emit_mov(loc, GPR(RCX)), emit_mov(GPR(RCX), local_loc)>>

\* Faulty variant: local i is loaded from parameter i, the vmctx slot included.
load_param_unshifted(lo, i, cc) ==
    LET loc == get_param_location(i, cc)
        local_loc == get_local_location(lo, i)
    IN IF loc.k = "GPR" \/ local_loc.k = "GPR" THEN <<emit_mov(loc, local_loc)>>
       ELSE <<emit_mov(loc, GPR(RAX)), emit_mov(GPR(RAX), local_loc)>>

load_param(lo, i, cc) ==
    LET loc == get_param_location(i + 1, cc)
        local_loc == get_local_location(lo, i)
    IN IF loc.k = "GPR" THEN <<emit_mov(loc, local_loc)>>
       ELSE IF local_loc.k = "GPR" THEN <<emit_mov(loc, local_loc)>>
       ELSE <<emit_mov(loc, GPR(RAX)), emit_mov(GPR(RAX), local_loc)>>

\* The indices (n_params..n).step_by(NATIVE_PAGE_SIZE / 8).skip(1)
probe_idxs(n, n_params) ==
    LET step == NATIVE_PAGE_SIZE \div 8
        cnt == IF n > n_params THEN (n - n_params - 1) \div step ELSE 0
    IN [j \in 1..cnt |-> n_params + j * step]

init_locals(so0, n, n_params, cc) ==
    LET nregs == Min(Len(LOCAL_REGISTERS), n)
        win == (cc = "WindowsFastcall")
        static_area_size == 8 * nregs + 8 + (IF win THEN 8 * 2 ELSE 0)
        lo == static_area_size + 8
        locals_size == Max(n - Len(LOCAL_REGISTERS), 0) * 8
        sub == <<emit_sub(Imm32(static_area_size + locals_size), GPR(RSP))>>
        save_locals == [i \in 1..nregs |->
                          emit_mov(GPR(LOCAL_REGISTERS[i]), Memory(RBP, -(so0 + 8 * i)))]
        so1 == so0 + 8 * nregs + 8
        save_r15 == <<emit_mov(GPR(R15), Memory(RBP, -so1))>>
        save_win == IF win
                    THEN <<emit_mov(GPR(RDI), Memory(RBP, -(so1 + 8))),
                           emit_mov(GPR(RSI), Memory(RBP, -(so1 + 16)))>>
                    ELSE <<>>
        so2 == IF win THEN so1 + 16 ELSE so1
        params == Flatten([i \in 1..n_params |-> load_param(lo, i - 1, cc)])
        vmctx == <<emit_mov(get_param_location(0, cc), GPR(R15))>>
        pidx == probe_idxs(n, n_params)
        probe == [j \in 1..Len(pidx) |->
                    emit_mov(Imm32(0), get_local_location(lo, pidx[j]))]
        nzero == Min(Len(LOCAL_REGISTERS) - Min(n_params, Len(LOCAL_REGISTERS)),
                     Max(n - n_params, 0))
        zero_regs == [j \in 1..nzero |->
                        emit_mov(Imm32(0), GPR(LOCAL_REGISTERS[n_params + j]))]
        stack_len == Max(n - Max(Len(LOCAL_REGISTERS), n_params), 0)
        zero_stack == IF stack_len > 0
                      THEN <<emit_mov(Imm64(stack_len), GPR(RCX)),
                             emit_xor(GPR(RAX), GPR(RAX)),
                             emit_lea(get_local_location(lo, n - 1), GPR(RDI)),
                             emit_rep_stosq>>
                      ELSE <<>>
    IN [so |-> so2 + locals_size,
        sao |-> Some(so2),
        lo |-> lo,
        spills |-> save_locals \o save_r15 \o save_win,
        emitted |-> sub \o save_locals \o save_r15 \o save_win \o params \o vmctx
                    \o probe \o zero_regs \o zero_stack]

\* Faulty variant: restores the local registers in the order they were saved.
finalize_locals_forward(sao, cc, local_count) ==
    [abort |-> ~sao.some,
     emitted |-> <<emit_lea(Memory(RBP, -sao.v), GPR(RSP))>>
                 \o (IF cc = "WindowsFastcall"
                     THEN <<emit_pop(GPR(RSI)), emit_pop(GPR(RDI))>> ELSE <<>>)
                 \o <<emit_pop(GPR(R15))>>
                 \o [j \in 1..Min(Len(LOCAL_REGISTERS), local_count) |->
                       emit_pop(GPR(LOCAL_REGISTERS[j]))]]

\* Faulty variant: an absent save_area_offset is read as 0.
finalize_locals_unchecked(sao, cc, local_count) ==
    [abort |-> FALSE,
     emitted |-> <<emit_lea(Memory(RBP, -sao.v), GPR(RSP))>>
                 \o (IF cc = "WindowsFastcall"
                     THEN <<emit_pop(GPR(RSI)), emit_pop(GPR(RDI))>> ELSE <<>>)
                 \o <<emit_pop(GPR(R15))>>
                 \o [j \in 1..Min(Len(LOCAL_REGISTERS), local_count) |->
                       emit_pop(GPR(LOCAL_REGISTERS[
                           Min(Len(LOCAL_REGISTERS), local_count) + 1 - j]))]]

finalize_locals(sao, cc, local_count) ==
    IF ~sao.some THEN [abort |-> TRUE, emitted |-> <<>>]
    ELSE
      LET nregs == Min(Len(LOCAL_REGISTERS), local_count)
          lea == <<emit_lea(Memory(RBP, -sao.v), GPR(RSP))>>
          win == IF cc = "WindowsFastcall"
                 THEN <<emit_pop(GPR(RSI)), emit_pop(GPR(RDI))>>
                 ELSE <<>>
          r15 == <<emit_pop(GPR(R15))>>
          regs == [j \in 1..nregs |-> emit_pop(GPR(LOCAL_REGISTERS[nregs + 1 - j]))]
      IN [abort |-> FALSE, emitted |-> lea \o win \o r15 \o regs]

-----------------------------------------------------------------------------
(* The driver: what the code generator may pass to the Machine.            *)

Repeat(x, k) == [i \in 1..k |-> x]

\* Type lists: the empty list, one of each type, a mixed pair, and the runs
\* that exhaust a register file (six value GPRs, five value XMMs).
TysInputs ==
    {<<>>, <<"I64", "F32">>, Repeat("I32", 10), Repeat("F64", 6)}
      \cup {<<t>> : t \in Types}

\* Type lists where the stack and the frame are the subject: one register of
\* each file, and the runs that spill to the stack.
FrameTys == {<<"I64">>, <<"F32">>, Repeat("I32", 10), Repeat("F64", 6)}

\* Lists a caller can hand to a release call besides the lists it was given.
ArbLists ==
    {<<GPR(RSI), GPR(RSI)>>,
     <<Memory(RBP, -16), Memory(RBP, -8)>>,
     <<GPR(RSI), Memory(RBP, -8)>>,
     <<Memory(RBP, 16)>>,
     <<Memory(RSP, -8), Imm32(0)>>}

HeldLists == held

ReleaseInputs == HeldLists \cup ArbLists

TempGprs == {RAX, RCX, RDX}
TempXmms == {XMM0, XMM1, XMM2}
ReserveRegs == {RAX, RDX, RBX, R15}

-----------------------------------------------------------------------------
(* Bookkeeping of outstanding locations (by value).                        *)

Range(s) == {s[i] : i \in 1..Len(s)}

IsReg(loc) == loc.k \in {"GPR", "XMM"}
IsFrameSlot(loc) == loc.k = "Memory" /\ loc.a = RBP /\ loc.b < 0

RemoveHeld(h, S) == {SelectSeq(l, LAMBDA x : x \notin S) : l \in h} \ {<<>>}

\* The Machine fields and the outstanding locations as a call finds them.
Snapshot ==
    [ug |-> used_gprs, ux |-> used_xmms, so |-> stack_offset,
     sao |-> save_area_offset, lo |-> locals_offset, held |-> held]

\* The record of a call.  val: the register or index the call was given, or
\* the register it returned; locs: the locations it was given or returned;
\* pre: the state it was made in.
Call(op, val, locs) == [op |-> op, val |-> val, locs |-> locs, pre |-> Snapshot]

\* The driver is between two calls: the previous call's result is consumed.
Idle ==
    [op |-> "idle", val |-> None, locs |-> <<>>,
     pre |-> [ug |-> 0, ux |-> 0, so |-> 0, sao |-> None, lo |-> 0, held |-> {}]]

NoInit == [set |-> FALSE, n |-> 0, cc |-> "SystemV", base |-> 0]

Running == ~aborted /\ phase # "done" /\ last = Idle

CanVend == Cardinality(held) < MaxHeld

-----------------------------------------------------------------------------
(* Initial state: Machine::new().                                          *)

Init ==
    /\ used_gprs = 0
    /\ used_xmms = 0
    /\ stack_offset = 0
    /\ save_area_offset = None
    /\ locals_offset = 0
    /\ emitted = <<>>
    /\ last = Idle
    /\ aborted = FALSE
    /\ phase = "fresh"
    /\ held = {}
    /\ spills = <<>>
    /\ init_args = NoInit

-----------------------------------------------------------------------------
(* Actions: one per public method.                                         *)

\* A query: nothing changes but the record of the call.
Query(op, val, locs) ==
    /\ Running
    /\ last' = Call(op, val, locs)
    /\ emitted' = <<>>
    /\ phase' = "body"
    /\ UNCHANGED <<used_gprs, used_xmms, stack_offset, save_area_offset, locals_offset,
                   aborted, held, spills, init_args>>

PickGpr == Query("pick_gpr", pick_gpr(used_gprs), <<>>)
PickTempGpr == Query("pick_temp_gpr", pick_temp_gpr(used_gprs), <<>>)
PickXmm == Query("pick_xmm", pick_xmm(used_xmms), <<>>)
PickTempXmm == Query("pick_temp_xmm", pick_temp_xmm(used_xmms), <<>>)

\* The returned Vec is recorded as the list of register numbers.
GetUsedGprs == Query("get_used_gprs", None, get_used_gprs(used_gprs))
GetUsedXmms == Query("get_used_xmms", None, get_used_xmms(used_xmms))

GetLocalLocation(idx) ==
    Query("get_local_location", Some(idx), <<get_local_location(locals_offset, idx)>>)

AcquireTempGpr ==
    /\ Running
    /\ LET gpr == pick_temp_gpr(used_gprs) IN
         /\ used_gprs' = IF gpr.some THEN set_gpr_used(used_gprs, gpr.v) ELSE used_gprs
         /\ held' = IF gpr.some THEN held \cup {<<GPR(gpr.v)>>} ELSE held
         /\ last' = Call("acquire_temp_gpr", gpr, <<>>)
    /\ emitted' = <<>>
    /\ phase' = "body"
    /\ UNCHANGED <<used_xmms, stack_offset, save_area_offset, locals_offset,
                   aborted, spills, init_args>>

ReleaseTempGpr(gpr) ==
    /\ Running
    /\ IF get_gpr_used(used_gprs, gpr)
       THEN /\ used_gprs' = set_gpr_unused(used_gprs, gpr)
            /\ held' = RemoveHeld(held, {GPR(gpr)})
            /\ aborted' = FALSE
       ELSE /\ aborted' = TRUE
            /\ UNCHANGED <<used_gprs, held>>
    /\ last' = Call("release_temp_gpr", Some(gpr), <<>>)
    /\ emitted' = <<>>
    /\ phase' = "body"
    /\ UNCHANGED <<used_xmms, stack_offset, save_area_offset, locals_offset,
                   spills, init_args>>

ReserveUnusedTempGpr(gpr) ==
    /\ Running
    /\ IF ~get_gpr_used(used_gprs, gpr)
       THEN /\ used_gprs' = set_gpr_used(used_gprs, gpr)
            /\ held' = held \cup {<<GPR(gpr)>>}
            /\ aborted' = FALSE
       ELSE /\ aborted' = TRUE
            /\ UNCHANGED <<used_gprs, held>>
    /\ last' = Call("reserve_unused_temp_gpr", Some(gpr), <<>>)
    /\ emitted' = <<>>
    /\ phase' = "body"
    /\ UNCHANGED <<used_xmms, stack_offset, save_area_offset, locals_offset,
                   spills, init_args>>

AcquireTempXmm ==
    /\ Running
    /\ LET xmm == pick_temp_xmm(used_xmms) IN
         /\ used_xmms' = IF xmm.some THEN set_xmm_used(used_xmms, xmm.v) ELSE used_xmms
         /\ held' = IF xmm.some THEN held \cup {<<XMM(xmm.v)>>} ELSE held
         /\ last' = Call("acquire_temp_xmm", xmm, <<>>)
    /\ emitted' = <<>>
    /\ phase' = "body"
    /\ UNCHANGED <<used_gprs, stack_offset, save_area_offset, locals_offset,
                   aborted, spills, init_args>>

ReleaseTempXmm(xmm) ==
    /\ Running
    /\ IF get_xmm_used(used_xmms, xmm)
       THEN /\ used_xmms' = set_xmm_unused(used_xmms, xmm)
            /\ held' = RemoveHeld(held, {XMM(xmm)})
            /\ aborted' = FALSE
       ELSE /\ aborted' = TRUE
            /\ UNCHANGED <<used_xmms, held>>
    /\ last' = Call("release_temp_xmm", Some(xmm), <<>>)
    /\ emitted' = <<>>
    /\ phase' = "body"
    /\ UNCHANGED <<used_gprs, stack_offset, save_area_offset, locals_offset,
                   spills, init_args>>

AcquireLocations(tys, zeroed) ==
    /\ Running
    /\ LET r == acquire_locations(used_gprs, used_xmms, stack_offset, tys, zeroed) IN
         /\ used_gprs' = r.ug
         /\ used_xmms' = r.ux
         /\ stack_offset' = r.so
         /\ emitted' = r.emitted
         /\ aborted' = r.abort
         /\ held' = IF r.abort \/ r.ret = <<>> THEN held ELSE held \cup {r.ret}
         /\ last' = Call("acquire_locations", Some([tys |-> tys, zeroed |-> zeroed]),
                         IF r.abort THEN <<>> ELSE r.ret)
    /\ phase' = "body"
    /\ UNCHANGED <<save_area_offset, locals_offset, spills, init_args>>

\* What a finished release call has taken back from the outstanding locations.
Released(op, locs) ==
    {x \in Range(locs) :
        \/ op \in {"release_locations", "release_locations_only_regs"} /\ IsReg(x)
        \/ op \in {"release_locations", "release_locations_only_stack"} /\ IsFrameSlot(x)}

ReleaseFrame(op, r, locs) ==
    /\ used_gprs' = r.ug
    /\ used_xmms' = r.ux
    /\ stack_offset' = r.so
    /\ emitted' = r.emitted
    /\ aborted' = r.abort
    /\ held' = IF r.abort THEN held ELSE RemoveHeld(held, Released(op, locs))
    /\ last' = Call(op, None, locs)
    /\ phase' = "body"
    /\ UNCHANGED <<save_area_offset, locals_offset, spills, init_args>>

ReleaseLocations(locs) ==
    /\ Running
    /\ ReleaseFrame("release_locations",
                    release_locations(used_gprs, used_xmms, stack_offset, locs), locs)

ReleaseLocationsOnlyRegs(locs) ==
    /\ Running
    /\ ReleaseFrame("release_locations_only_regs",
                    release_locations_only_regs(used_gprs, used_xmms, stack_offset, locs),
                    locs)

ReleaseLocationsOnlyStack(locs) ==
    /\ Running
    /\ ReleaseFrame("release_locations_only_stack",
                    release_locations_only_stack(used_gprs, used_xmms, stack_offset, locs),
                    locs)

ReleaseLocationsKeepState(locs) ==
    /\ Running
    /\ ReleaseFrame("release_locations_keep_state",
                    release_locations_keep_state(used_gprs, used_xmms, stack_offset, locs),
                    locs)

\* The driver emits the prologue before anything else.
InitLocals(n, n_params, cc) ==
    /\ Running
    /\ phase = "fresh"
    /\ LET r == init_locals(stack_offset, n, n_params, cc) IN
         /\ stack_offset' = r.so
         /\ save_area_offset' = r.sao
         /\ locals_offset' = r.lo
         /\ emitted' = r.emitted
         /\ spills' = r.spills
         /\ init_args' = [set |-> TRUE, n |-> n, cc |-> cc, base |-> r.so]
    /\ last' = Call("init_locals", Some(n_params), <<>>)
    /\ phase' = "body"
    /\ UNCHANGED <<used_gprs, used_xmms, aborted, held>>

\* The epilogue ends the function: the Machine is dropped afterwards.
FinalizeLocals(cc, local_count) ==
    /\ Running
    /\ LET r == finalize_locals(save_area_offset, cc, local_count) IN
         /\ emitted' = r.emitted
         /\ aborted' = r.abort
    /\ last' = Call("finalize_locals", Some(local_count), <<cc>>)
    /\ phase' = "done"
    /\ UNCHANGED <<used_gprs, used_xmms, stack_offset, save_area_offset, locals_offset,
                   held, spills, init_args>>

\* The driver takes the call's return value and the assembler keeps what was
\* emitted: the next call starts from an empty record.
Return ==
    /\ ~aborted
    /\ phase # "done"
    /\ last # Idle
    /\ last' = Idle
    /\ emitted' = <<>>
    /\ UNCHANGED <<used_gprs, used_xmms, stack_offset, save_area_offset, locals_offset,
                   aborted, phase, held, spills, init_args>>

-----------------------------------------------------------------------------
(* Spec: values and temporaries on a fresh Machine, released whole or      *)
(* registers only.                                                         *)

Next ==
    \/ Return
    \/ PickGpr
    \/ PickTempGpr
    \/ PickXmm
    \/ PickTempXmm
    \/ GetUsedGprs
    \/ GetUsedXmms
    \/ CanVend /\ AcquireTempGpr
    \/ CanVend /\ AcquireTempXmm
    \/ \E r \in TempGprs : ReleaseTempGpr(r)
    \/ \E r \in TempXmms : ReleaseTempXmm(r)
    \/ CanVend /\ \E tys \in TysInputs, zeroed \in BOOLEAN : AcquireLocations(tys, zeroed)
    \/ \E locs \in ReleaseInputs : ReleaseLocations(locs)
    \/ \E locs \in ReleaseInputs : ReleaseLocationsOnlyRegs(locs)

Spec == Init /\ [][Next]_vars

-----------------------------------------------------------------------------
(* SpecStack: values on a fresh Machine, released through the three calls  *)
(* that pop stack slots.                                                   *)

NextStack ==
    \/ Return
    \/ CanVend /\ \E tys \in FrameTys : AcquireLocations(tys, FALSE)
    \/ \E locs \in ReleaseInputs : ReleaseLocations(locs)
    \/ \E locs \in ReleaseInputs : ReleaseLocationsOnlyStack(locs)
    \/ \E locs \in ReleaseInputs : ReleaseLocationsKeepState(locs)

SpecStack == Init /\ [][NextStack]_vars

-----------------------------------------------------------------------------
(* SpecFrame: prologue, locals, a body that releases the lists it acquired *)
(* whole (and may ask for the branch-out adjustment of any list), epilogue. *)
(* The prologue is optional: the body also runs on the fresh Machine.      *)

NextFrame ==
    \/ Return
    \/ \E n \in 0..MaxLocals, cc \in CallingConventions :
         \E n_params \in 0..n : InitLocals(n, n_params, cc)
    \/ \E idx \in 0..(MaxLocals + 1) : GetLocalLocation(idx)
    \/ CanVend /\ \E tys \in FrameTys, zeroed \in BOOLEAN : AcquireLocations(tys, zeroed)
    \/ \E locs \in HeldLists : ReleaseLocations(locs)
    \/ \E locs \in ReleaseInputs : ReleaseLocationsKeepState(locs)
    \/ \E n \in 0..MaxLocals, cc \in CallingConventions : FinalizeLocals(cc, n)

SpecFrame == Init /\ [][NextFrame]_vars

-----------------------------------------------------------------------------
(* SpecTemps: the temporary-register interface alone.                      *)

NextTemps ==
    \/ Return
    \/ PickTempGpr
    \/ PickTempXmm
    \/ AcquireTempGpr
    \/ AcquireTempXmm
    \/ \E r \in TempGprs \cup {RSI} : ReleaseTempGpr(r)
    \/ \E r \in TempXmms \cup {XMM3} : ReleaseTempXmm(r)
    \/ \E r \in ReserveRegs : ReserveUnusedTempGpr(r)

SpecTemps == Init /\ [][NextTemps]_vars

-----------------------------------------------------------------------------
(* SpecPrologue: init_locals on a fresh Machine for frames up to a few     *)
(* pages of locals, then the local lookups and the epilogue.               *)

\* Local counts: the small frames, and frames around one and two pages of
\* stack locals (a page holds NATIVE_PAGE_SIZE / 8 locals).
PrologueLocals ==
    (0..MaxPrologueSmall)
        \cup {NATIVE_PAGE_SIZE \div 8 + d : d \in 0..(MaxParams + 2)}
        \cup {2 * (NATIVE_PAGE_SIZE \div 8) + d : d \in {0, 1, MaxParams + 1}}

PrologueLookups == (0..MaxPrologueSmall) \cup {NATIVE_PAGE_SIZE \div 8}

NextPrologue ==
    \/ Return
    \/ \E n \in PrologueLocals, cc \in CallingConventions :
         \E n_params \in 0..Min(n, MaxParams) : InitLocals(n, n_params, cc)
    \/ \E idx \in PrologueLookups : GetLocalLocation(idx)
    \/ \E n \in 0..MaxPrologueSmall, cc \in CallingConventions : FinalizeLocals(cc, n)

SpecPrologue == Init /\ [][NextPrologue]_vars

-----------------------------------------------------------------------------
(* SpecRsp: the calls that move RSP together with stack_offset.  The       *)
(* prologue at most once and first, then values and temporaries, released  *)
(* whole, registers only or stack only; no release_locations_keep_state.   *)

\* Type lists that spill: past the six value GPRs or the five value XMMs.
RspTys == {Repeat("I32", 10), Repeat("F64", 6), Repeat("I64", 8)}

NextRsp ==
    \/ Return
    \/ \E n \in {0, MaxLocals}, cc \in CallingConventions :
         \E n_params \in {0, n} : InitLocals(n, n_params, cc)
    \/ CanVend /\ AcquireTempGpr
    \/ CanVend /\ AcquireTempXmm
    \/ \E r \in TempGprs : ReleaseTempGpr(r)
    \/ \E r \in TempXmms : ReleaseTempXmm(r)
    \/ CanVend /\ \E tys \in RspTys, zeroed \in BOOLEAN : AcquireLocations(tys, zeroed)
    \/ \E locs \in HeldLists : ReleaseLocations(locs)
    \/ \E locs \in HeldLists : ReleaseLocationsOnlyRegs(locs)
    \/ \E locs \in HeldLists : ReleaseLocationsOnlyStack(locs)

SpecRsp == Init /\ [][NextRsp]_vars

-----------------------------------------------------------------------------
(* Properties.  Each is stated over the record of the call just made       *)
(* (last), the state that call was made in (last.pre) and the state it     *)
(* left.                                                                   *)

\* The registers with a set bit in v.
BitsOf(v) == {i \in Lane : Bit(v, i) = 1}

GprsIn(locs) == {x.a : x \in {y \in Range(locs) : y.k = "GPR"}}
XmmsIn(locs) == {x.a : x \in {y \in Range(locs) : y.k = "XMM"}}
SlotsIn(locs) == {-x.b : x \in {y \in Range(locs) : IsFrameSlot(y)}}

LocsOf(h) == UNION {Range(l) : l \in h}

\* The frame offsets among the locations of the lists in h.
SlotsOf(h) == {-x.b : x \in {y \in LocsOf(h) : IsFrameSlot(y)}}

\* The outstanding locations, one entry per list and position.
Outstanding == UNION {{<<l, i>> : i \in DOMAIN l} : l \in held}

\* How many of the entries in occ are equal to loc.
Occurrences(occ, loc) == Cardinality({p \in occ : p[1][p[2]] = loc})

Reverse(q) == [i \in 1..Len(q) |-> q[Len(q) + 1 - i]]

-----------------------------------------------------------------------------
\* C1 (SpecFrame): register conservation.  Whenever every location list that
\* was vended has been released exactly once (nothing is outstanding and no
\* call aborted), used_gprs and used_xmms are 0 as on the fresh Machine and
\* stack_offset is what it was before the first acquire (0, or where
\* init_locals left it).
C1_RegisterConservation ==
    (~aborted /\ held = {})
        => /\ used_gprs = 0
           /\ used_xmms = 0
           /\ stack_offset = init_args.base

\* A release_locations that returned the last outstanding list, six registers
\* and four stack slots, inside a frame.
C1_Witness ==
    /\ last.op = "release_locations"
    /\ ~aborted
    /\ init_args.set
    /\ init_args.n = 5
    /\ last.pre.held = {last.locs}
    /\ Len(last.locs) = 10
    /\ last.pre.so = init_args.base + 32
    /\ last.pre.ug # 0
    /\ held = {}
    /\ stack_offset = init_args.base

-----------------------------------------------------------------------------
\* Walking locs in reverse from position i with the running stack offset top,
\* some Memory(RBP, d), d < 0, is met whose -d is not the running offset.
RECURSIVE MeetsStaleSlot(_, _, _)
MeetsStaleSlot(locs, i, top) ==
    IF i < 1 THEN FALSE
    ELSE IF IsFrameSlot(locs[i])
         THEN (-locs[i].b) # top \/ MeetsStaleSlot(locs, i - 1, top - 8)
         ELSE MeetsStaleSlot(locs, i - 1, top)

\* C2 (SpecStack): LIFO discipline.  release_locations, release_locations_only_stack
\* and release_locations_keep_state abort whenever the reverse walk of the
\* list meets a frame slot that is not at the running stack_offset; a slot
\* that a completed call released was outstanding and every outstanding slot
\* above it went in the same call (it was the most recently vended one left);
\* the outstanding slots are always exactly the slots 8, 16, .. stack_offset.
C2_LifoDiscipline ==
    /\ (/\ last.op \in {"release_locations", "release_locations_only_stack",
                        "release_locations_keep_state"}
        /\ MeetsStaleSlot(last.locs, Len(last.locs), last.pre.so))
          => aborted
    /\ (/\ last.op \in {"release_locations", "release_locations_only_stack"}
        /\ ~aborted)
          => /\ SlotsIn(last.locs) \subseteq SlotsOf(last.pre.held)
             /\ \A x \in SlotsIn(last.locs) :
                  \A y \in SlotsOf(last.pre.held) :
                      y > x => y \in SlotsIn(last.locs)
             /\ stack_offset = last.pre.so - 8 * Cardinality(SlotsIn(last.locs))
    /\ ~aborted
          => SlotsOf(held) = {8 * k : k \in 1..(stack_offset \div 8)}

\* Two lists with stack slots are outstanding and release_locations is given
\* one of them whose slots are not on top: it aborts.
C2_Witness ==
    /\ last.op = "release_locations"
    /\ aborted
    /\ Cardinality(last.pre.held) = 2
    /\ last.locs \in last.pre.held
    /\ SlotsIn(last.locs) # {}
    /\ MeetsStaleSlot(last.locs, Len(last.locs), last.pre.so)

-----------------------------------------------------------------------------
\* C3 (Spec): no aliasing.  In every state in which no call has aborted, bit i
\* of used_gprs (used_xmms) is set iff exactly one outstanding location names
\* register i, no register is named by two outstanding locations, and a call
\* that vends registers vends none that was outstanding when it was made.
C3_NoAliasing ==
    ~aborted
      => /\ used_gprs \in 0..(2^NumGprs - 1)
         /\ used_xmms \in 0..(2^NumXmms - 1)
         /\ LET occ == Outstanding IN
              \A i \in Lane :
                /\ Bit(used_gprs, i) = 1 <=> Occurrences(occ, GPR(i)) = 1
                /\ Bit(used_xmms, i) = 1 <=> Occurrences(occ, XMM(i)) = 1
                /\ Occurrences(occ, GPR(i)) <= 1
                /\ Occurrences(occ, XMM(i)) <= 1
         /\ last.op = "acquire_locations"
              => {x \in Range(last.locs) : IsReg(x)} \cap LocsOf(last.pre.held) = {}
         /\ (last.op = "acquire_temp_gpr" /\ last.val.some)
              => GPR(last.val.v) \notin LocsOf(last.pre.held)
         /\ (last.op = "acquire_temp_xmm" /\ last.val.some)
              => XMM(last.val.v) \notin LocsOf(last.pre.held)

\* A temporary is vended while a ten-value list holding all six value GPRs is
\* outstanding.
C3_Witness ==
    /\ ~aborted
    /\ last.op = "acquire_temp_gpr"
    /\ last.val = Some(RAX)
    /\ \E l \in last.pre.held : Len(l) = 10 /\ GprsIn(l) = {RSI, RDI, R8, R9, R10, R11}
    /\ BitsOf(used_gprs) = {RAX, RSI, RDI, R8, R9, R10, R11}
    /\ Cardinality(held) = 2

-----------------------------------------------------------------------------
\* The registers the epilogue is to pop, in order: RSI, RDI under
\* WindowsFastcall, then R15, then the first min(n, 4) of R12, R13, R14, RBX
\* reversed.
ExpectedPops(n, cc) ==
    (IF cc = "WindowsFastcall" THEN <<RSI, RDI>> ELSE <<>>)
      \o <<R15>>
      \o Reverse(SubSeq(<<R12, R13, R14, RBX>>, 1, Min(n, 4)))

\* C4 (SpecFrame): prologue/epilogue symmetry.  After init_locals(n, n_params,
\* cc) on a fresh Machine, a body whose acquired lists are all released, and
\* finalize_locals(cc, n): the epilogue is lea rsp,[rbp - save_area_offset]
\* followed by one pop per register init_locals saved, in the reverse of the
\* order of the saves (the order ExpectedPops), the k-th pop reading the frame
\* slot its register was stored to; the save area is exactly the saved
\* registers (so after the pops RSP is back at RBP, where the prologue found
\* it) and stack_offset is back where init_locals left it.
C4_PrologueEpilogueSymmetry ==
    (/\ last.op = "finalize_locals"
     /\ init_args.set
     /\ last.val = Some(init_args.n)
     /\ last.locs = <<init_args.cc>>
     /\ held = {})
      => /\ ~aborted
         /\ Len(emitted) = 1 + Len(spills)
         /\ emitted[1] = emit_lea(Memory(RBP, -save_area_offset.v), GPR(RSP))
         /\ \A k \in 1..Len(spills) :
              LET saved == spills[Len(spills) + 1 - k] IN
                /\ emitted[k + 1] = emit_pop(saved.src)
                /\ saved.dst = Memory(RBP, -(save_area_offset.v - 8 * (k - 1)))
         /\ [k \in 1..Len(spills) |-> emitted[k + 1].dst] =
              [k \in 1..Len(ExpectedPops(init_args.n, init_args.cc)) |->
                  GPR(ExpectedPops(init_args.n, init_args.cc)[k])]
         /\ save_area_offset.v = 8 * Len(spills)
         /\ stack_offset = init_args.base

\* The epilogue of a five-local WindowsFastcall function: lea and seven pops.
C4_Witness ==
    /\ last.op = "finalize_locals"
    /\ init_args.set
    /\ init_args.n = 5
    /\ init_args.cc = "WindowsFastcall"
    /\ last.val = Some(5)
    /\ last.locs = <<"WindowsFastcall">>
    /\ held = {}
    /\ ~aborted
    /\ Len(emitted) = 8
    /\ emitted[2] = emit_pop(GPR(RSI))
    /\ emitted[8] = emit_pop(GPR(R12))

-----------------------------------------------------------------------------
\* What acquire_locations returns for ten I32 on a fresh Machine: six
\* registers and the four stack slots at 8, 16, 24 and 32.
IsTenI32Locs(locs) ==
    /\ Len(locs) = 10
    /\ Cardinality(GprsIn(locs)) = 6
    /\ SlotsIn(locs) = {8, 16, 24, 32}

\* C5 (SpecFrame): release_locations_keep_state on the list the most recent
\* acquire_locations returned completes without aborting, however many stack
\* slots the list has, and leaves used_gprs, used_xmms and stack_offset as
\* they were: (a) in the state every acquire_locations leaves, applied to the
\* list it returned; (b) called when that list is all that is outstanding;
\* (c) a call never changes the Machine; (d) on ten I32 acquired on a fresh
\* Machine stack_offset stays 32.
C5_KeepStateAfterAcquire ==
    /\ (last.op = "acquire_locations" /\ ~aborted)
         => LET r == release_locations_keep_state(used_gprs, used_xmms, stack_offset,
                                                  last.locs)
            IN ~r.abort /\ r.ug = used_gprs /\ r.ux = used_xmms /\ r.so = stack_offset
    /\ (last.op = "release_locations_keep_state" /\ last.pre.held = {last.locs})
         => ~aborted
    /\ last.op = "release_locations_keep_state"
         => /\ used_gprs = last.pre.ug
            /\ used_xmms = last.pre.ux
            /\ stack_offset = last.pre.so
    /\ (/\ last.op = "release_locations_keep_state"
        /\ IsTenI32Locs(last.locs)
        /\ last.pre.held = {last.locs})
         => ~aborted /\ stack_offset = 32

\* The unit test's scenario: ten I32 acquired on a fresh Machine, then
\* release_locations_keep_state on them.
C5_Witness ==
    /\ last.op = "release_locations_keep_state"
    /\ IsTenI32Locs(last.locs)
    /\ last.pre.held = {last.locs}
    /\ ~init_args.set
    /\ ~aborted
    /\ stack_offset = 32
    /\ BitsOf(used_gprs) = {RSI, RDI, R8, R9, R10, R11}
    /\ emitted = <<emit_add(Imm32(32), GPR(RSP))>>

-----------------------------------------------------------------------------
\* C6 as stated (SpecFrame): for every state and every list,
\* release_locations_keep_state emits exactly what release_locations would
\* have emitted for the same list from the same state.
C6_SameEmissionAlways ==
    last.op = "release_locations_keep_state"
      => emitted = release_locations(last.pre.ug, last.pre.ux, last.pre.so,
                                     last.locs).emitted

\* C6 (SpecFrame), amended: for every state and every list on which
\* release_locations completes, release_locations_keep_state completes too and
\* emits the same add rsp, delta (nothing when delta is 0); and whenever
\* release_locations_keep_state aborts, release_locations aborts as well.
C6_SameEmissionWhenReleaseCompletes ==
    last.op = "release_locations_keep_state"
      => LET r == release_locations(last.pre.ug, last.pre.ux, last.pre.so, last.locs)
         IN /\ ~r.abort => (~aborted /\ emitted = r.emitted)
            /\ aborted => r.abort

\* release_locations_keep_state on an outstanding list of five XMMs and the
\* top stack slot, below another outstanding list.
C6_Witness ==
    /\ last.op = "release_locations_keep_state"
    /\ ~aborted
    /\ Cardinality(last.pre.held) = 2
    /\ last.locs \in last.pre.held
    /\ Len(last.locs) = 6
    /\ ~release_locations(last.pre.ug, last.pre.ux, last.pre.so, last.locs).abort
    /\ emitted = <<emit_add(Imm32(8), GPR(RSP))>>

-----------------------------------------------------------------------------
ValueGprs == {RSI, RDI, R8, R9, R10, R11}
ValueXmms == {XMM3, XMM4, XMM5, XMM6, XMM7}
ScratchGprs == {RAX, RCX, RDX}
ScratchXmms == {XMM0, XMM1, XMM2}
ReservedGprs == {RBP, RSP, R15, RBX, R12, R13, R14}

\* C7 (Spec): candidate disjointness.  pick_gpr, pick_xmm and
\* acquire_locations return only registers of {RSI, RDI, R8..R11} and
\* {XMM3..XMM7}; pick_temp_* and acquire_temp_* only registers of {RAX, RCX,
\* RDX} and {XMM0..XMM2}; the value and temp sets are disjoint; a temporary
\* just vended is not an outstanding location, and every outstanding location
\* a value call vended stays outside the temp sets; none of RBP, RSP, R15,
\* RBX, R12, R13, R14 is returned by any pick or acquire.
C7_CandidateDisjointness ==
    /\ ValueGprs \cap ScratchGprs = {}
    /\ ValueXmms \cap ScratchXmms = {}
    /\ (last.op = "pick_gpr" /\ last.val.some) => last.val.v \in ValueGprs
    /\ (last.op = "pick_xmm" /\ last.val.some) => last.val.v \in ValueXmms
    /\ last.op = "acquire_locations"
         => /\ GprsIn(last.locs) \subseteq ValueGprs
            /\ XmmsIn(last.locs) \subseteq ValueXmms
    /\ (last.op \in {"pick_temp_gpr", "acquire_temp_gpr"} /\ last.val.some)
         => last.val.v \in ScratchGprs
    /\ (last.op \in {"pick_temp_xmm", "acquire_temp_xmm"} /\ last.val.some)
         => last.val.v \in ScratchXmms
    /\ (last.op = "acquire_temp_gpr" /\ last.val.some)
         => GPR(last.val.v) \notin LocsOf(last.pre.held)
    /\ (last.op = "acquire_temp_xmm" /\ last.val.some)
         => XMM(last.val.v) \notin LocsOf(last.pre.held)
    /\ (last.op \in {"pick_gpr", "pick_temp_gpr", "acquire_temp_gpr"} /\ last.val.some)
         => last.val.v \notin ReservedGprs
    /\ last.op = "acquire_locations" => GprsIn(last.locs) \cap ReservedGprs = {}
    /\ \A l \in held :
         \/ l \in {<<GPR(r)>> : r \in ScratchGprs} \cup {<<XMM(r)>> : r \in ScratchXmms}
         \/ GprsIn(l) \subseteq ValueGprs /\ XmmsIn(l) \subseteq ValueXmms

\* A temporary GPR is vended while a value list holding RSI is outstanding.
C7_Witness ==
    /\ last.op = "acquire_temp_gpr"
    /\ last.val = Some(RAX)
    /\ \E l \in last.pre.held : RSI \in GprsIn(l) /\ XMM3 \in XmmsIn(l)
    /\ BitsOf(used_gprs) = {RAX, RSI}
    /\ ~aborted

-----------------------------------------------------------------------------
\* The location of local i as the layout states it.
LocalsLayout(i, lo) ==
    CASE i = 0 -> GPR(R12)
      [] i = 1 -> GPR(R13)
      [] i = 2 -> GPR(R14)
      [] i = 3 -> GPR(RBX)
      [] OTHER -> Memory(RBP, -(lo + (i - 4) * 8))

-----------------------------------------------------------------------------
\* The lowest-numbered element of a non-empty set of registers.
Lowest(S) == CHOOSE r \in S : \A q \in S : r <= q

\* C9 (SpecTemps): acquire_temp_gpr (acquire_temp_xmm) returns the
\* lowest-indexed register of {RAX, RCX, RDX} ({XMM0, XMM1, XMM2}) whose bit is
\* clear and sets exactly that bit; it returns nothing iff all three are used
\* and then changes nothing.  Starting with no register used, successive
\* calls return RAX, RCX, RDX and then nothing.
C9_AcquireTemp ==
    /\ last.op = "acquire_temp_gpr"
         => LET free == {r \in ScratchGprs : Bit(last.pre.ug, r) = 0} IN
              /\ ~aborted
              /\ last.val.some <=> free # {}
              /\ free = {} => Snapshot = last.pre
              /\ free # {}
                   => /\ last.val = Some(Lowest(free))
                      /\ used_gprs = last.pre.ug + 2^Lowest(free)
                      /\ used_xmms = last.pre.ux
                      /\ stack_offset = last.pre.so
              /\ last.pre.ug = 0 => last.val = Some(RAX)
              /\ BitsOf(last.pre.ug) = {RAX} => last.val = Some(RCX)
              /\ BitsOf(last.pre.ug) = {RAX, RCX} => last.val = Some(RDX)
              /\ BitsOf(last.pre.ug) = {RAX, RCX, RDX} => last.val = None
    /\ last.op = "acquire_temp_xmm"
         => LET free == {r \in ScratchXmms : Bit(last.pre.ux, r) = 0} IN
              /\ ~aborted
              /\ last.val.some <=> free # {}
              /\ free = {} => Snapshot = last.pre
              /\ free # {}
                   => /\ last.val = Some(Lowest(free))
                      /\ used_xmms = last.pre.ux + 2^Lowest(free)
                      /\ used_gprs = last.pre.ug
                      /\ stack_offset = last.pre.so
              /\ last.pre.ux = 0 => last.val = Some(XMM0)
              /\ BitsOf(last.pre.ux) = {XMM0} => last.val = Some(XMM1)
              /\ BitsOf(last.pre.ux) = {XMM0, XMM1} => last.val = Some(XMM2)
              /\ BitsOf(last.pre.ux) = {XMM0, XMM1, XMM2} => last.val = None

\* The fourth acquire_temp_gpr in a row: RAX, RCX and RDX are out, nothing is
\* returned.
C9_Witness ==
    /\ last.op = "acquire_temp_gpr"
    /\ last.val = None
    /\ last.pre.held = {<<GPR(RAX)>>, <<GPR(RCX)>>, <<GPR(RDX)>>}
    /\ BitsOf(used_gprs) = {RAX, RCX, RDX}
    /\ ~aborted

-----------------------------------------------------------------------------
\* Some register location of locs has its bit clear when its turn comes: the
\* bit is clear in (ug, ux), or the location occurs twice in the list.
ReleasesClearBit(locs, ug, ux) ==
    \E i \in DOMAIN locs :
        \/ locs[i].k = "GPR" /\ Bit(ug, locs[i].a) = 0
        \/ locs[i].k = "XMM" /\ Bit(ux, locs[i].a) = 0
        \/ IsReg(locs[i]) /\ \E j \in DOMAIN locs : j # i /\ locs[j] = locs[i]

\* C10 (Spec): releasing a register whose used bit is not set aborts.
\* release_temp_gpr and release_temp_xmm abort iff the bit is clear and
\* otherwise clear exactly that bit; release_locations and
\* release_locations_only_regs abort when a register of the list has its bit
\* clear (a duplicate inside the list included), release_locations_only_regs
\* only then, and when they complete they have cleared exactly the bits of the
\* registers in the list.
C10_ReleaseOfUnusedAborts ==
    /\ last.op = "release_temp_gpr"
         => IF Bit(last.pre.ug, last.val.v) = 0
            THEN aborted
            ELSE /\ ~aborted
                 /\ used_gprs = last.pre.ug - 2^last.val.v
                 /\ used_xmms = last.pre.ux
                 /\ stack_offset = last.pre.so
    /\ last.op = "release_temp_xmm"
         => IF Bit(last.pre.ux, last.val.v) = 0
            THEN aborted
            ELSE /\ ~aborted
                 /\ used_xmms = last.pre.ux - 2^last.val.v
                 /\ used_gprs = last.pre.ug
                 /\ stack_offset = last.pre.so
    /\ last.op \in {"release_locations", "release_locations_only_regs"}
         => /\ ReleasesClearBit(last.locs, last.pre.ug, last.pre.ux) => aborted
            /\ ~aborted
                 => /\ BitsOf(used_gprs) = BitsOf(last.pre.ug) \ GprsIn(last.locs)
                    /\ BitsOf(used_xmms) = BitsOf(last.pre.ux) \ XmmsIn(last.locs)
    /\ last.op = "release_locations_only_regs"
         => (aborted <=> ReleasesClearBit(last.locs, last.pre.ug, last.pre.ux))

\* release_locations_only_regs is given RSI twice while RSI is in use: the
\* second release finds the bit clear.
C10_Witness ==
    /\ last.op = "release_locations_only_regs"
    /\ last.locs = <<GPR(RSI), GPR(RSI)>>
    /\ Bit(last.pre.ug, RSI) = 1
    /\ aborted

-----------------------------------------------------------------------------
\* The outstanding frame slots, one per list and position.
OutstandingSlots == {p \in Outstanding : IsFrameSlot(p[1][p[2]])}

\* The locals init_locals keeps in the frame rather than in LOCAL_REGISTERS.
StackLocals == IF init_args.set THEN Max(init_args.n - Len(LOCAL_REGISTERS), 0) ELSE 0

\* The statement without the stack-resident locals: whenever no call has
\* aborted, stack_offset is 8 times the number of outstanding frame slots plus
\* the number of registers init_locals saved.
C11_SlotsAndSavesOnly ==
    ~aborted => stack_offset = 8 * (Cardinality(OutstandingSlots) + Len(spills))

\* C11 (SpecFrame): stack_offset accounting.  Whenever no call has aborted,
\* stack_offset is 8 times (the number of outstanding frame slots vended by
\* acquire_locations, plus the number of registers init_locals saved, plus the
\* max(0, n - 4) locals init_locals reserved in the frame); it is never
\* negative, and every call changes it by a multiple of 8.
C11_StackOffsetAccounting ==
    ~aborted
        => /\ stack_offset
                = 8 * (Cardinality(OutstandingSlots) + Len(spills) + StackLocals)
           /\ stack_offset >= 0
           /\ last # Idle => (stack_offset - last.pre.so) % 8 = 0

\* A frame of five locals under SystemV (five register saves, one local in
\* the frame) with four value slots outstanding: stack_offset is 8 * 10.
C11_Witness ==
    /\ ~aborted
    /\ last.op = "acquire_locations"
    /\ init_args.set /\ init_args.n = 5 /\ init_args.cc = "SystemV"
    /\ Len(spills) = 5
    /\ Cardinality(OutstandingSlots) = 4
    /\ last.pre.so = 48
    /\ stack_offset = 80

-----------------------------------------------------------------------------
\* Every Memory location of locs is based on RBP, below the frame pointer.
BelowFramePointer(locs) ==
    \A i \in DOMAIN locs :
        locs[i].k = "Memory" => locs[i].a = RBP /\ locs[i].b < 0

-----------------------------------------------------------------------------
\* C13 (SpecFrame): save_area_offset is None in every state in which
\* init_locals has not run and Some (the end of the register save area) in
\* every state after it; finalize_locals aborts exactly when save_area_offset
\* is None, and then nothing has been emitted, while a finalize_locals after
\* init_locals completes and starts with lea rsp, [rbp - save_area_offset].
C13_SaveAreaOffsetPresence ==
    /\ ~init_args.set => save_area_offset = None
    /\ init_args.set => save_area_offset = Some(8 * Len(spills))
    /\ last.op = "finalize_locals"
         => /\ aborted <=> ~init_args.set
            /\ aborted => emitted = <<>>
            /\ ~aborted
                 => /\ emitted # <<>>
                    /\ emitted[1] = emit_lea(Memory(RBP, -save_area_offset.v), GPR(RSP))

\* finalize_locals on a Machine whose init_locals was never called, after a
\* value was acquired: the call aborts with nothing emitted.
C13_Witness ==
    /\ last.op = "finalize_locals"
    /\ ~init_args.set
    /\ last.pre.sao = None
    /\ last.pre.held # {}
    /\ aborted
    /\ emitted = <<>>

-----------------------------------------------------------------------------
\* The prologue of six locals, two of them parameters, under SystemV, after
\* its first instruction.
PrologueScenarioTail ==
    << emit_mov(GPR(R12), Memory(RBP, -8)),
       emit_mov(GPR(R13), Memory(RBP, -16)),
       emit_mov(GPR(R14), Memory(RBP, -24)),
       emit_mov(GPR(RBX), Memory(RBP, -32)),
       emit_mov(GPR(R15), Memory(RBP, -40)),
       emit_mov(GPR(RSI), GPR(R12)),
       emit_mov(GPR(RDX), GPR(R13)),
       emit_mov(GPR(RDI), GPR(R15)),
       emit_mov(Imm32(0), GPR(R14)),
       emit_mov(Imm32(0), GPR(RBX)),
       emit_mov(Imm64(2), GPR(RCX)),
       emit_xor(GPR(RAX), GPR(RAX)),
       emit_lea(Memory(RBP, -56), GPR(RDI)),
       emit_rep_stosq >>

IsPrologueScenario ==
    /\ last.op = "init_locals"
    /\ init_args.n = 6
    /\ last.val = Some(2)
    /\ init_args.cc = "SystemV"

\* The scenario as stated, reserving 48 bytes.
C14_PrologueScenarioSub48 ==
    IsPrologueScenario
        => emitted = <<emit_sub(Imm32(48), GPR(RSP))>> \o PrologueScenarioTail

\* C14 (SpecPrologue): init_locals with n = 6, n_params = 2 and SystemV on a
\* fresh Machine emits, in this order: sub rsp, 56 (the 40 bytes of the save
\* area and the 16 bytes of locals 4 and 5); the spills of R12, R13, R14, RBX
\* to [rbp-8] .. [rbp-32] and of R15 to [rbp-40]; mov r12, rsi; mov r13, rdx;
\* mov r15, rdi; no probe; mov r14, 0; mov rbx, 0; mov rcx, 2; xor rax, rax;
\* lea rdi, [rbp-56] (the slot of local 5); rep stosq.
C14_PrologueScenario ==
    IsPrologueScenario
        => emitted = <<emit_sub(Imm32(56), GPR(RSP))>> \o PrologueScenarioTail

\* The scenario has just run on the fresh Machine.
C14_Witness ==
    /\ IsPrologueScenario
    /\ last.pre.so = 0
    /\ last.pre.ug = 0
    /\ Len(emitted) = 15
    /\ ~aborted

-----------------------------------------------------------------------------
StrictlyAscending(q) == \A i, j \in DOMAIN q : i < j => q[i] < q[j]

\* C15 (Spec): get_used_gprs returns exactly the registers whose bits are set
\* in used_gprs, each once, in strictly ascending register index, and
\* get_used_xmms does the same for used_xmms; neither changes the Machine.
C15_GetUsedRegisters ==
    /\ last.op = "get_used_gprs"
         => /\ Range(last.locs) = BitsOf(used_gprs)
            /\ Len(last.locs) = Cardinality(BitsOf(used_gprs))
            /\ StrictlyAscending(last.locs)
            /\ Snapshot = last.pre
            /\ ~aborted /\ emitted = <<>>
    /\ last.op = "get_used_xmms"
         => /\ Range(last.locs) = BitsOf(used_xmms)
            /\ Len(last.locs) = Cardinality(BitsOf(used_xmms))
            /\ StrictlyAscending(last.locs)
            /\ Snapshot = last.pre
            /\ ~aborted /\ emitted = <<>>

\* get_used_gprs while a temporary and six values are held: RAX, then RSI,
\* RDI, R8..R11, with the gap between bit 0 and bit 6 stepped over.
C15_Witness ==
    /\ last.op = "get_used_gprs"
    /\ last.locs = <<RAX, RSI, RDI, R8, R9, R10, R11>>
    /\ Cardinality(last.pre.held) = 2

-----------------------------------------------------------------------------
\* The positions of locs up to i that are frame slots.
SlotsUpTo(locs, i) == {j \in 1..i : locs[j].k = "Memory"}

\* Where the i-th type is placed given the Machine before the call and the
\* locations returned for the earlier types.
Placement(ty, locs, i, pre) ==
    LET earlier == {locs[j] : j \in 1..(i - 1)}
        free == IF IsFloatTy(ty)
                THEN ValueXmms \ (BitsOf(pre.ux) \cup {x.a : x \in {y \in earlier : y.k = "XMM"}})
                ELSE ValueGprs \ (BitsOf(pre.ug) \cup {x.a : x \in {y \in earlier : y.k = "GPR"}})
    IN IF free # {}
       THEN (IF IsFloatTy(ty) THEN XMM(Lowest(free)) ELSE GPR(Lowest(free)))
       ELSE Memory(RBP, -(pre.so + 8 * Cardinality(SlotsUpTo(locs, i))))

\* C16 (Spec): acquire_locations(types, zeroed) over F32/F64 and
\* I32/I64/FuncRef/ExternRef returns one location per type, in order: the
\* lowest XMM of XMM3..XMM7 (resp. GPR of RSI, RDI, R8..R11) free at that
\* moment, else a fresh slot Memory(RBP, -(stack_offset + 8)) with
\* stack_offset advanced by 8; the two register files are independent.  It
\* emits one sub rsp, 8 * (slots returned) iff that number is non-zero, and
\* then, iff zeroed, one 64-bit mov 0, loc per returned location in order.
\* The call aborts exactly when some type is none of the six.
C16_AcquireLocations ==
    last.op = "acquire_locations"
        => LET tys == last.val.v.tys
               zeroed == last.val.v.zeroed
               locs == last.locs
               m == Cardinality(SlotsUpTo(locs, Len(locs)))
               sub == IF m # 0 THEN <<emit_sub(Imm32(8 * m), GPR(RSP))>> ELSE <<>>
               zero == IF zeroed
                       THEN [i \in 1..Len(locs) |-> emit_mov(Imm32(0), locs[i])]
                       ELSE <<>>
           IN /\ aborted <=> \E i \in DOMAIN tys : ~(IsFloatTy(tys[i]) \/ IsGprTy(tys[i]))
              /\ ~aborted
                   => /\ Len(locs) = Len(tys)
                      /\ \A i \in DOMAIN tys : locs[i] = Placement(tys[i], locs, i, last.pre)
                      /\ BitsOf(used_gprs) = BitsOf(last.pre.ug) \cup GprsIn(locs)
                      /\ BitsOf(used_xmms) = BitsOf(last.pre.ux) \cup XmmsIn(locs)
                      /\ stack_offset = last.pre.so + 8 * m
                      /\ emitted = sub \o zero
                      /\ \A i \in DOMAIN emitted : emitted[i].size = "S64"

\* Ten I32 on a fresh Machine, zeroed: RSI, RDI, R8, R9, R10, R11 and the
\* slots -8 .. -32, sub rsp, 32 and ten movs.
C16_Witness ==
    /\ last.op = "acquire_locations"
    /\ last.val.v.zeroed
    /\ last.pre.ug = 0 /\ last.pre.so = 0
    /\ last.locs = <<GPR(RSI), GPR(RDI), GPR(R8), GPR(R9), GPR(R10), GPR(R11),
                     Memory(RBP, -8), Memory(RBP, -16), Memory(RBP, -24),
                     Memory(RBP, -32)>>
    /\ emitted[1] = emit_sub(Imm32(32), GPR(RSP))
    /\ Len(emitted) = 11

-----------------------------------------------------------------------------
\* static_area_size of a frame of n locals under cc.
StaticAreaSize(n, cc) ==
    8 * Min(4, n) + 8 + (IF cc = "WindowsFastcall" THEN 16 ELSE 0)

\* C17 (SpecPrologue): for every n, n_params and calling convention,
\* init_locals on a fresh Machine ends with save_area_offset =
\* static_area_size, locals_offset = static_area_size + 8 and stack_offset =
\* static_area_size + 8 * max(0, n - 4), where static_area_size =
\* 8 * min(4, n) + 8 + (16 if WindowsFastcall else 0); for n = 6,
\* n_params = 2, SystemV these are 40, 48 and 56.
C17_InitLocalsOffsets ==
    /\ last.op = "init_locals"
         => LET s == StaticAreaSize(init_args.n, init_args.cc) IN
              /\ last.pre.so = 0 /\ last.pre.sao = None /\ last.pre.lo = 0
              /\ save_area_offset = Some(s)
              /\ locals_offset = s + 8
              /\ stack_offset = s + 8 * (IF init_args.n > 4 THEN init_args.n - 4 ELSE 0)
              /\ ~aborted
    /\ IsPrologueScenario
         => /\ save_area_offset = Some(40)
            /\ locals_offset = 48
            /\ stack_offset = 56

\* init_locals with two locals, both parameters, under WindowsFastcall:
\* static_area_size 40 from two register saves, R15, RDI and RSI.
C17_Witness ==
    /\ last.op = "init_locals"
    /\ init_args.n = 2 /\ last.val = Some(2) /\ init_args.cc = "WindowsFastcall"
    /\ save_area_offset = Some(40)
    /\ locals_offset = 48
    /\ stack_offset = 40

-----------------------------------------------------------------------------
(* Execution of an emitted sequence.  A value is what a register or a     *)
(* frame word holds: the function-entry value of a location, an immediate,*)
(* or an address relative to RBP.  cpu = [reg, mem, stos, bad]: mem maps   *)
(* the RBP displacements written so far, stos is what rep stosq wrote, bad *)
(* is set by an instruction whose operands cannot be executed.            *)

EntryOf(loc) == [k |-> "entry", loc |-> loc, v |-> 0]
ImmVal(v) == [k |-> "imm", loc |-> NoLoc, v |-> v]
AddrVal(d) == [k |-> "addr", loc |-> NoLoc, v |-> d]
Unknown == [k |-> "unknown", loc |-> NoLoc, v |-> 0]

CpuAtEntry ==
    [reg |-> [r \in 0..(NumGprs - 1) |-> EntryOf(GPR(r))],
     mem |-> [d \in {} |-> Unknown],
     stos |-> {},
     bad |-> FALSE]

ReadLoc(cpu, loc) ==
    IF loc.k = "GPR" THEN cpu.reg[loc.a]
    ELSE IF loc.k = "Memory" /\ loc.a = RBP
         THEN (IF loc.b \in DOMAIN cpu.mem THEN cpu.mem[loc.b] ELSE EntryOf(loc))
    ELSE IF loc.k \in {"Imm32", "Imm64"} THEN ImmVal(loc.a)
    ELSE Unknown

WriteMem(mem, ds, val) ==
    [d \in DOMAIN mem \cup ds |-> IF d \in ds THEN val ELSE mem[d]]

WriteLoc(cpu, loc, val) ==
    IF loc.k = "GPR" THEN [cpu EXCEPT !.reg[loc.a] = val]
    ELSE IF loc.k = "Memory" /\ loc.a = RBP
         THEN [cpu EXCEPT !.mem = WriteMem(cpu.mem, {loc.b}, val)]
    ELSE [cpu EXCEPT !.bad = TRUE]

Step(cpu, ins) ==
    IF ins.op = "mov" THEN WriteLoc(cpu, ins.dst, ReadLoc(cpu, ins.src))
    ELSE IF ins.op = "xor"
         THEN (IF ins.src = ins.dst THEN WriteLoc(cpu, ins.dst, ImmVal(0))
               ELSE WriteLoc(cpu, ins.dst, Unknown))
    ELSE IF ins.op = "lea"
         THEN (IF ins.src.k = "Memory" /\ ins.src.a = RBP
               THEN WriteLoc(cpu, ins.dst, AddrVal(ins.src.b))
               ELSE [cpu EXCEPT !.bad = TRUE])
    ELSE IF ins.op \in {"sub", "add"} THEN WriteLoc(cpu, ins.dst, Unknown)
    ELSE IF ins.op = "rep stosq"
         THEN LET cnt == cpu.reg[RCX]
                  at == cpu.reg[RDI]
              IN IF cnt.k = "imm" /\ at.k = "addr"
                 THEN LET ds == {at.v + 8 * j : j \in 0..(cnt.v - 1)} IN
                        [reg |-> [cpu.reg EXCEPT ![RCX] = ImmVal(0),
                                                 ![RDI] = AddrVal(at.v + 8 * cnt.v)],
                         mem |-> WriteMem(cpu.mem, ds, cpu.reg[RAX]),
                         stos |-> cpu.stos \cup ds,
                         bad |-> cpu.bad]
                 ELSE [cpu EXCEPT !.bad = TRUE]
    ELSE [cpu EXCEPT !.bad = TRUE]

RECURSIVE Execute(_, _, _)
Execute(prog, i, cpu) ==
    IF cpu.bad \/ i > Len(prog) THEN cpu
    ELSE Execute(prog, i + 1, Step(cpu, prog[i]))

\* C18 (SpecPrologue): for every n >= n_params and both conventions,
\* executing what init_locals emitted from the function-entry state leaves
\* local i < n_params holding the entry value of ABI argument i + 1, every
\* local n_params <= i < n holding 0 and R15 holding the entry value of ABI
\* argument 0 (so no argument source was overwritten before it was read),
\* and rep stosq has written exactly the slots of the stack locals
\* max(4, n_params) .. n - 1.
C18_PrologueExecution ==
    last.op = "init_locals"
        => LET n == init_args.n
               n_params == last.val.v
               cc == init_args.cc
               cpu == Execute(emitted, 1, CpuAtEntry)
               local(i) == get_local_location(locals_offset, i)
           IN /\ ~cpu.bad
              /\ \A i \in 0..(n_params - 1) :
                    ReadLoc(cpu, local(i)) = EntryOf(get_param_location(i + 1, cc))
              /\ \A i \in n_params..(n - 1) : ReadLoc(cpu, local(i)) = ImmVal(0)
              /\ cpu.reg[R15] = EntryOf(get_param_location(0, cc))
              /\ cpu.stos = {local(i).b : i \in Max(4, n_params)..(n - 1)}

\* Eight locals, six of them parameters, under WindowsFastcall: locals 4 and
\* 5 are stack locals filled from the caller's frame through RAX, locals 6
\* and 7 are zeroed by rep stosq.
C18_Witness ==
    /\ last.op = "init_locals"
    /\ init_args.n = 8 /\ last.val = Some(6) /\ init_args.cc = "WindowsFastcall"
    /\ ReadLoc(Execute(emitted, 1, CpuAtEntry), Memory(RBP, -(locals_offset + 8)))
         = EntryOf(Memory(RBP, 64))
    /\ Execute(emitted, 1, CpuAtEntry).stos
         = {-(locals_offset + 16), -(locals_offset + 24)}

-----------------------------------------------------------------------------
\* The RBP displacements the movs of prog store to.
FrameStores(prog) ==
    {prog[i].dst.b : i \in {j \in DOMAIN prog :
        prog[j].op = "mov" /\ prog[j].dst.k = "Memory" /\ prog[j].dst.a = RBP}}

\* The displacement rep stosq starts writing at: the operand of the lea.
StosStart(prog) ==
    {prog[i].src.b : i \in {j \in DOMAIN prog : prog[j].op = "lea"}}

\* The displacements of the probe stores: the movs of 0 into the frame.
ProbeStores(prog) ==
    {prog[i].dst.b : i \in {j \in DOMAIN prog :
        /\ prog[j].op = "mov"
        /\ prog[j].src = Imm32(0)
        /\ prog[j].dst.k = "Memory"}}

\* The untouched bytes below the word at d, down to the next touched word.
\* 0 when nothing below d is touched.
UntouchedBelow(d, touched) ==
    LET lower == {x \in touched : x < d}
    IN IF lower = {} THEN 0
       ELSE d - 8 - (CHOOSE x \in lower : \A y \in lower : y <= x)

\* C19 (SpecPrologue): guard-page probe.  Among the stores init_locals emits
\* into the frame before the rep stosq, taken from the frame pointer
\* downward, fewer than 4096 contiguous bytes stay untouched between one
\* stored slot and the next lower stored slot, and between the lowest stored
\* slot and the address rep stosq starts writing at; every probe store
\* targets a stack local that is not a parameter.
C19_GuardPageProbe ==
    last.op = "init_locals"
        => LET stores == FrameStores(emitted)
               touched == stores \cup StosStart(emitted)
           IN /\ \A d \in stores : UntouchedBelow(d, touched) < NATIVE_PAGE_SIZE
              /\ \A d \in ProbeStores(emitted) :
                    \E i \in Max(4, last.val.v)..(init_args.n - 1) :
                        get_local_location(locals_offset, i) = Memory(RBP, d)

\* 518 locals, five of them parameters, under SystemV: local 4 is stored at
\* [rbp-48] and the one probe goes to local 517 at [rbp-4152].
C19_Witness ==
    /\ last.op = "init_locals"
    /\ init_args.n = 518 /\ last.val = Some(5) /\ init_args.cc = "SystemV"
    /\ ProbeStores(emitted) = {-4152}
    /\ -48 \in FrameStores(emitted)
    /\ UntouchedBelow(-48, FrameStores(emitted)) = NATIVE_PAGE_SIZE

-----------------------------------------------------------------------------
\* Locations that are not a register and not Memory(RBP, d) with d < 0.
NotOfThisFrame(loc) == ~IsReg(loc) /\ ~(loc.k = "Memory" /\ loc.a = RBP /\ loc.b < 0)

\* Locations release_locations steps over: Memory on another base, immediates.
Foreign == {Memory(RSP, -8), Memory(RSP, 16), Memory(RAX, 0), Imm32(0), Imm64(8)}

\* Memory on RBP at or above the frame pointer.
AboveFrame == {Memory(RBP, 0), Memory(RBP, 16)}

\* locs with x put in after position i (0: in front).
InsertAt(locs, i, x) ==
    [j \in 1..(Len(locs) + 1) |->
        IF j <= i THEN locs[j] ELSE IF j = i + 1 THEN x ELSE locs[j - 1]]

\* The statement for every Memory that is not Memory(RBP, d) with d < 0: a
\* release_locations over such locations and immediates only does not abort,
\* changes nothing and emits nothing.
C20_IgnoresAllNonFrameMemory ==
    (last.op = "release_locations" /\ \A i \in DOMAIN last.locs : NotOfThisFrame(last.locs[i]))
        => /\ ~aborted
           /\ Snapshot = last.pre
           /\ emitted = <<>>

\* C20 (Spec): release_locations steps over every Memory location whose base
\* is not RBP and every Imm32/Imm64: wherever such a location is put into the
\* list, the call aborts or completes as without it, with the same
\* stack_offset, used sets and emitted add rsp.  A Memory(RBP, d) with d >= 0
\* is not stepped over: a list that holds one aborts.
C20_IgnoresForeignLocations ==
    last.op = "release_locations"
        => LET pre == last.pre
               locs == last.locs
               plain == release_locations(pre.ug, pre.ux, pre.so, locs)
           IN /\ \A x \in Foreign, i \in 0..Len(locs) :
                    release_locations(pre.ug, pre.ux, pre.so, InsertAt(locs, i, x)) = plain
              /\ \A x \in AboveFrame, i \in 0..Len(locs) :
                    release_locations(pre.ug, pre.ux, pre.so, InsertAt(locs, i, x)).abort
              /\ (\A i \in DOMAIN locs : locs[i] \in Foreign)
                   => /\ ~aborted
                      /\ Snapshot = pre
                      /\ emitted = <<>>
              /\ (\E i \in DOMAIN locs : locs[i] \in AboveFrame) => aborted

\* release_locations of [Memory(RSP, -8), Imm32(0)] while values are held in
\* registers and in the frame: nothing happens.
C20_Witness ==
    /\ last.op = "release_locations"
    /\ last.locs = <<Memory(RSP, -8), Imm32(0)>>
    /\ last.pre.so > 0
    /\ last.pre.ug # 0
    /\ ~aborted
    /\ stack_offset = last.pre.so
    /\ emitted = <<>>

-----------------------------------------------------------------------------
\* What prog takes from RSP: the immediates of its sub rsp less those of its
\* add rsp.
RECURSIVE NetSub(_)
NetSub(prog) ==
    IF prog = <<>> THEN 0
    ELSE LET ins == Head(prog)
             d == IF ins.dst = GPR(RSP) /\ ins.op = "sub" THEN ins.src.a
                  ELSE IF ins.dst = GPR(RSP) /\ ins.op = "add" THEN -ins.src.a
                  ELSE 0
         IN d + NetSub(Tail(prog))

\* C21 (SpecRsp): RSP tracking.  stack_offset is 0 at function entry, and
\* every completed call of init_locals, acquire_locations, release_locations,
\* release_locations_only_regs, release_locations_only_stack and the
\* temporary-register operations emits sub rsp / add rsp whose immediates net
\* exactly the change it makes to stack_offset, and writes RSP in no other
\* way; summed over the calls made so far, the emitted sub rsp less the
\* emitted add rsp is stack_offset, i.e. RSP = RBP - stack_offset.
C21_RspTracking ==
    /\ phase = "fresh" => stack_offset = 0
    /\ (last # Idle /\ ~aborted)
         => /\ NetSub(emitted) = stack_offset - last.pre.so
            /\ \A i \in DOMAIN emitted :
                  emitted[i].dst = GPR(RSP)
                      => emitted[i].op \in {"sub", "add"} /\ emitted[i].src.k = "Imm32"

\* Inside a Windows frame of five locals, release_locations_only_stack gives
\* back the four slots of ten I32 whose registers stay in use: add rsp, 32.
C21_Witness ==
    /\ last.op = "release_locations_only_stack"
    /\ init_args.set /\ init_args.cc = "WindowsFastcall" /\ init_args.n = 5
    /\ emitted = <<emit_add(Imm32(32), GPR(RSP))>>
    /\ last.pre.so = init_args.base + 32
    /\ stack_offset = init_args.base
    /\ used_gprs # 0
    /\ ~aborted

-----------------------------------------------------------------------------
\* The frame offsets k of the slots Memory(RBP, -k) of the save area.
SaveAreaSlots == {8 * j : j \in 1..(save_area_offset.v \div 8)}

\* The frame offsets of the stack-resident locals 4 .. n - 1.
StackLocalSlots ==
    {-get_local_location(locals_offset, i).b : i \in 4..(init_args.n - 1)}

-----------------------------------------------------------------------------
\* release_locations_only_regs, then release_locations_only_stack, on locs.
RegsThenStack(pre, locs) ==
    LET r1 == release_locations_only_regs(pre.ug, pre.ux, pre.so, locs)
        r2 == release_locations_only_stack(r1.ug, r1.ux, r1.so, locs)
    IN [ug |-> r2.ug, ux |-> r2.ux, so |-> r2.so, abort |-> r1.abort \/ r2.abort,
        emitted |-> r1.emitted \o r2.emitted]

\* release_locations_only_stack, then release_locations_only_regs, on locs.
StackThenRegs(pre, locs) ==
    LET r1 == release_locations_only_stack(pre.ug, pre.ux, pre.so, locs)
        r2 == release_locations_only_regs(r1.ug, r1.ux, r1.so, locs)
    IN [ug |-> r2.ug, ux |-> r2.ux, so |-> r2.so, abort |-> r1.abort \/ r2.abort,
        emitted |-> r1.emitted \o r2.emitted]

\* C23 (SpecRsp): release decomposition.  Whenever release_locations has
\* completed on a list, release_locations_only_regs and
\* release_locations_only_stack on the same list from the same state, in
\* either order, complete too and give the used_gprs, used_xmms, stack_offset
\* and emitted add rsp that release_locations gave; a
\* release_locations_only_regs never changes stack_offset and emits nothing,
\* and a release_locations_only_stack never changes used_gprs or used_xmms.
C23_ReleaseDecomposition ==
    /\ (last.op = "release_locations" /\ ~aborted)
         => LET here == [ug |-> used_gprs, ux |-> used_xmms, so |-> stack_offset,
                         abort |-> FALSE, emitted |-> emitted]
            IN /\ RegsThenStack(last.pre, last.locs) = here
               /\ StackThenRegs(last.pre, last.locs) = here
    /\ last.op = "release_locations_only_regs"
         => stack_offset = last.pre.so /\ emitted = <<>>
    /\ last.op = "release_locations_only_stack"
         => used_gprs = last.pre.ug /\ used_xmms = last.pre.ux

\* release_locations of ten I32 (six registers, four slots) while a
\* temporary stays in use: the registers go and add rsp, 32 is emitted.
C23_Witness ==
    /\ last.op = "release_locations"
    /\ ~aborted
    /\ Cardinality(GprsIn(last.locs)) = 6
    /\ Cardinality(SlotsIn(last.locs)) = 4
    /\ emitted = <<emit_add(Imm32(32), GPR(RSP))>>
    /\ used_gprs # 0
    /\ BitsOf(last.pre.ug) = BitsOf(used_gprs) \cup GprsIn(last.locs)

====
